---- MODULE Spec2Model ----
(***************************************************************************)
(* Rule and capability model of the yare.io typing declarations            *)
(* (src/src/main.ts): spirits with shape-restricted command sets, the      *)
(* Action Gateway that validates intents before forwarding them to the     *)
(* host, and the per-tick economy rules of stars, bases, outposts and      *)
(* pylons that the declarations document.                                  *)
(***************************************************************************)
EXTENDS Integers, Sequences, FiniteSets

VARIABLES tick, shape, snapshot, locked, born, acted, suppressed, dispatched,
          pending, last, position, energy, spawn,
          star, starEvt, base, baseEvt, outpost, enemy, shot, pylon, heal, ran

vars == <<tick, shape, snapshot, locked, born, acted, suppressed, dispatched,
          pending, last, position, energy, spawn,
          star, starEvt, base, baseEvt, outpost, enemy, shot, pylon, heal, ran>>

gatewayVars == <<shape, snapshot, locked, born, acted, suppressed, dispatched, pending, last>>
economyVars == <<position, energy, spawn, star, starEvt, base, baseEvt, outpost, enemy, shot,
                 pylon, heal, ran>>

(***************************************************************************)
(* Bounds of the model.                                                    *)
(***************************************************************************)
\* number of tick boundaries a behaviour crosses
MaxTick == 1
\* number of spirits the divides of a behaviour create; a tick whose divides
\* would create more does not end in the model
MaxBirths == 1
\* energy capacity of the modelled star
StarCap == 120
\* energy capacity of the modelled outpost
OutpostCap == 510
\* energy capacity of the modelled base
BaseCap == 200
\* energy capacity of the modelled pylon
PylonCap == 50
\* energy capacity of the modelled spirits
SpiritCap == 2
\* most energy one energize hands over
MaxTransfer == 1

(***************************************************************************)
(* Entity Model: shapes, commands and shape-restricted capability views.   *)
(***************************************************************************)
Shape == {"circles", "squares", "triangles"}

\* the ten commands of the Spirit interface
Methods == {"energize", "move", "jump", "merge", "divide",
            "lock", "unlock", "explode", "shout", "set_mark"}

\* the ids the host gives to the player's spirits, in ascending order
SpiritOrder == <<"s1", "s2", "s3", "s4", "s5", "s6">>
SpiritIds == {SpiritOrder[i] : i \in DOMAIN SpiritOrder}

\* the shape entry of an id no spirit has been given yet
NoShape == "none"

BASE_IDS == {"base_zxq", "base_a2c", "base_p89", "base_nua"}
STAR_IDS == {"star_zxq", "star_a2c", "star_p89", "star_nua"}

\* the structures of the snapshot; the modelled base is base_zxq
BaseId == "base_zxq"
StructureIds == {BaseId, "star_zxq"}

\* an id no snapshot ever holds
GhostId == "ghost"

\* the spirit the commands of the model name as their target; a snapshot
\* holds it or not, as the roster goes
TargetSpirit == SpiritOrder[2]

\* what energize(target: Target) names, Target = Spirit | Structure: a spirit
\* or a structure with a sight (a Star omits sight and is no Target), or an
\* id that is in no snapshot
EnergizeTargets == {TargetSpirit, BaseId, GhostId}

\* what merge(target: Spirit) names: a spirit, or an id that is in no snapshot
MergeTargets == {TargetSpirit, GhostId}

NoTarget == "-"
NoCoordinates == <<0, 0>>

\* faulty variant: the Circle view keeps explode
OmittedKeepExplode(sh) ==
    CASE sh = "circles"   -> {"lock", "unlock"}
      [] sh = "squares"   -> {"merge", "divide", "explode"}
      [] sh = "triangles" -> {"merge", "divide", "lock", "unlock"}

\* the methods Omit<> removes from the view of a shape
Omitted(sh) ==
    CASE sh = "circles"   -> {"lock", "unlock", "explode"}
      [] sh = "squares"   -> {"merge", "divide", "explode"}
      [] sh = "triangles" -> {"merge", "divide", "lock", "unlock"}

Capabilities(sh) == Methods \ Omitted(sh)

\* commands whose parameter is an entity (energize(target: Target),
\* merge(target: Spirit)); the others take coordinates, text or nothing
TargetedMethods == {"energize", "merge"}

\* faulty variant: the target of merge is not looked up
NeedsTargetNoMerge(m) == m = "energize"

\* step 2 of the gateway: the commands whose target id must be in the snapshot
NeedsTarget(m) == m \in TargetedMethods

Min(a, b) == IF a <= b THEN a ELSE b
Max(a, b) == IF a >= b THEN a ELSE b

\* the sum of f over the set S
RECURSIVE Sum(_, _)
Sum(f, S) ==
    IF S = {} THEN 0
    ELSE LET x == CHOOSE y \in S : TRUE IN f[x] + Sum(f, S \ {x})

\* n/d rounded to the nearest integer, a tie going up (n >= 0, d > 0)
RoundHalfUp(n, d) == (2 * n + d) \div (2 * d)

\* faulty variant: energy is stored without regard to the capacity
ClampNone(capacity, e) == e

\* energy_capacity is the maximum an entity can store
Clamp(capacity, e) == Min(capacity, e)

(***************************************************************************)
(* Action Gateway.                                                         *)
(***************************************************************************)
\* faulty variant: the per-tick tracker is not consulted
ValidateNoDouble(actor, m, target) ==
    IF m \notin Capabilities(shape[actor]) THEN "CapabilityError"
    ELSE IF NeedsTarget(m) /\ target \notin snapshot THEN "UnknownTargetError"
    ELSE "ok"

\* steps 1-3 of the gateway, in order: capability, target, one action per tick
Validate(actor, m, target) ==
    IF m \notin Capabilities(shape[actor]) THEN "CapabilityError"
    ELSE IF NeedsTarget(m) /\ target \notin snapshot THEN "UnknownTargetError"
    ELSE IF actor \in acted THEN "DoubleActionError"
    ELSE "ok"

\* faulty variant: every submitted intent takes the entity's slot, rejected or not
RecordAlways(actor, outcome) == acted \cup {actor}

\* the tracker after an intent: only a dispatched intent takes the slot
Record(actor, outcome) ==
    IF outcome = "ok" THEN acted \cup {actor} ELSE acted

\* the diagnostic slot before any intent of the tick
NoIntent ==
    [submitted |-> FALSE, actor |-> NoTarget, method |-> NoTarget,
     target |-> NoTarget, outcome |-> NoTarget, before |-> 0]

NoEffect == [kind |-> "none", to |-> NoCoordinates, target |-> NoTarget]

\* the command the host holds for a spirit until the tick boundary: move and
\* jump with their coordinates, energize and merge with their target, divide,
\* lock, unlock and explode as they are; a shout or a mark changes nothing the
\* model follows
Effect(m, target, to) ==
    IF m \in {"move", "jump"} THEN [kind |-> "move", to |-> to, target |-> NoTarget]
    ELSE IF m \in {"energize", "merge"}
         THEN [kind |-> m, to |-> NoCoordinates, target |-> target]
    ELSE IF m \in {"divide", "lock", "unlock", "explode"}
         THEN [kind |-> m, to |-> NoCoordinates, target |-> NoTarget]
    ELSE NoEffect

\* one intent through the gateway: validate, record, forward at most once.
\* dispatched counts the host calls made for each entity in the tick, pending
\* holds the forwarded commands the host applies at the tick boundary; last
\* and suppressed are the structured diagnostic of the intent.
Submit(actor, m, target, to) ==
    /\ actor \in SpiritIds \cap snapshot
    /\ LET outcome == Validate(actor, m, target)
       IN /\ acted' = Record(actor, outcome)
          /\ dispatched' = IF outcome = "ok"
                           THEN [dispatched EXCEPT ![actor] = @ + 1]
                           ELSE dispatched
          /\ pending' = IF outcome = "ok"
                        THEN [pending EXCEPT ![actor] = Effect(m, target, to)]
                        ELSE pending
          /\ suppressed' = IF outcome = "ok" THEN suppressed
                           ELSE suppressed \cup {actor}
          /\ last' = [submitted |-> TRUE, actor |-> actor, method |-> m,
                      target |-> target, outcome |-> outcome,
                      before |-> dispatched[actor]]
    /\ UNCHANGED <<tick, shape, snapshot, locked, born>>
    /\ UNCHANGED economyVars

\* energize(target: Target)
SubmitEnergize ==
    \E actor \in SpiritIds, target \in EnergizeTargets :
        Submit(actor, "energize", target, NoCoordinates)

\* merge(target: Spirit)
SubmitMerge ==
    \E actor \in SpiritIds, target \in MergeTargets :
        Submit(actor, "merge", target, NoCoordinates)

\* the coordinates the decision logic sends spirits to: a point of the pylon's
\* annulus
MoveTargets == {<<750, 500>>}

\* move(target: Coordinates), jump(target: Coordinates)
SubmitMove ==
    \E actor \in SpiritIds, m \in {"move", "jump"}, to \in MoveTargets :
        Submit(actor, m, NoTarget, to)

\* the commands that take text or nothing: divide, lock, unlock, explode,
\* shout, set_mark
SubmitPlain ==
    \E actor \in SpiritIds, m \in Methods \ (TargetedMethods \cup {"move", "jump"}) :
        Submit(actor, m, NoTarget, NoCoordinates)

\* the spirits whose forwarded command of the tick is of a kind and takes
\* effect: a locked spirit neither moves nor acts
Applied(kind) == {s \in SpiritIds : pending[s].kind = kind /\ s \notin locked}

Movers == Applied("move")
Energizers == Applied("energize")
Dividers == Applied("divide")
Exploders == Applied("explode")
Lockers == Applied("lock")
Unlockers == {s \in SpiritIds : pending[s].kind = "unlock"}

\* the spirits a merge folds into another spirit
Absorbed == {s \in Applied("merge") : pending[s].target # s}

\* the ids the host has not given to a spirit yet
FreshIds == {s \in SpiritIds : shape[s] = NoShape}

\* position of an id in the ascending id order
Rank(s) == CHOOSE i \in DOMAIN SpiritOrder : SpiritOrder[i] = s

\* the ids the host gives to the next n spirits: the lowest ones not yet given
NextIds(n) ==
    {s \in FreshIds : Cardinality({t \in FreshIds : Rank(t) < Rank(s)}) < n}

\* the id the host gives to the next spirit a base generates
NextId == CHOOSE s \in NextIds(1) : TRUE

\* the spirits the divides of the tick create: each divider gets one of the
\* next ids for its second half
Births == {f \in [Dividers -> NextIds(Cardinality(Dividers))] :
              \A a, b \in Dividers : f[a] = f[b] => a = b}

\* what the energizers hand over: up to MaxTransfer of the energy they have,
\* nothing when the target is out of range
Transfers == {k \in [Energizers -> 0..MaxTransfer] :
                 \A a \in Energizers : k[a] <= energy[a]}

\* how the energy of each divider can go to its two halves: the source gives
\* no ratio, the new spirit takes any part of it
Splits(pool) == {c \in [Dividers -> 0..SpiritCap] :
                    \A d \in Dividers : c[d] <= pool[d]}

\* tick boundary seen by the gateway: the host applies the forwarded commands
\* of the spirits that are not locked, the snapshot is rebuilt and the
\* one-action tracker forgotten; nothing is carried over to be re-issued.
\* A move or jump takes the spirit to its coordinates; an energize transfers
\* energy to its target; a merge folds the spirit and its energy into its
\* target; a divide adds a spirit of the divider's shape at the divider's
\* place; an explode destroys the spirit; lock and unlock set and clear the
\* lock.
NextTick ==
    /\ tick < MaxTick
    /\ born + Cardinality(Dividers) <= MaxBirths
    /\ tick' = tick + 1
    /\ born' = born + Cardinality(Dividers)
    /\ \E k \in Transfers, f \in Births :
          LET given == [s \in SpiritIds |-> IF s \in Energizers THEN k[s] ELSE 0]
              kept == [s \in SpiritIds |-> energy[s] - given[s]]
              gift(t) == Sum(given, {a \in Energizers : pending[a].target = t})
              folded(t) == Sum(kept, {a \in Absorbed : pending[a].target = t})
              pool == [s \in SpiritIds |->
                          Clamp(SpiritCap, kept[s] + gift(s) + folded(s))]
              created == {f[d] : d \in Dividers}
              parent(s) == CHOOSE d \in Dividers : f[d] = s
              removed == Exploders \cup Absorbed
          IN /\ \E c \in Splits(pool) :
                   energy' = [s \in SpiritIds |->
                                 IF s \in created THEN c[parent(s)]
                                 ELSE IF s \in removed THEN 0
                                 ELSE IF s \in Dividers THEN pool[s] - c[s]
                                 ELSE pool[s]]
             /\ base' = [base EXCEPT
                           !.energy = Clamp(base.energy_capacity, base.energy + gift(BaseId))]
             /\ shape' = [s \in SpiritIds |->
                             IF s \in created THEN shape[parent(s)] ELSE shape[s]]
             /\ position' = [s \in SpiritIds |->
                                IF s \in created THEN position[parent(s)]
                                ELSE IF s \in Movers THEN pending[s].to
                                ELSE position[s]]
             /\ snapshot' = (snapshot \ removed) \cup created
             /\ locked' = ((locked \cup Lockers) \ Unlockers) \ removed
    /\ acted' = {}
    /\ suppressed' = {}
    /\ dispatched' = [s \in SpiritIds |-> 0]
    /\ pending' = [s \in SpiritIds |-> NoEffect]
    /\ last' = NoIntent
    /\ UNCHANGED <<spawn, star, starEvt, baseEvt, outpost, enemy, shot, pylon, heal, ran>>

(***************************************************************************)
(* Economy Engine.                                                         *)
(***************************************************************************)
\* faulty variant: the fractional part of the income is dropped
StarIncomeFloor(s) ==
    IF s.id = "star_nua" THEN (300 + 3 * s.energy) \div 100
    ELSE (200 + 2 * s.energy) \div 100

\* faulty variant: star_nua regenerates like the other stars
StarIncomeNoNua(s) == RoundHalfUp(200 + 2 * s.energy, 100)

\* 2 energy + 2% of the current energy, rounded to a nearest integer;
\* 3 energy + 3% for star_nua
StarIncome(s) ==
    IF s.id = "star_nua" THEN RoundHalfUp(300 + 3 * s.energy, 100)
    ELSE RoundHalfUp(200 + 2 * s.energy, 100)

NoStarEvt == [fired |-> FALSE, before |-> 0, income |-> 0]

\* the star's regeneration of one tick
StarRegen ==
    /\ "star" \notin ran
    /\ LET income == StarIncome(star)
       IN /\ star' = [star EXCEPT !.energy = Clamp(star.energy_capacity, star.energy + income)]
          /\ starEvt' = [fired |-> TRUE, before |-> star.energy, income |-> income]
    /\ ran' = ran \cup {"star"}
    /\ UNCHANGED <<tick, base, baseEvt, outpost, enemy, shot, pylon, position, energy, spawn, heal>>
    /\ UNCHANGED gatewayVars

\* faulty variant: production looks at the energy only
BaseCanProduceBlind(b) == b.energy >= b.current_spirit_cost

\* a base produces when it has enough energy and no enemy in its sight
BaseCanProduce(b) == b.sight.enemies = {} /\ b.energy >= b.current_spirit_cost

NoBaseEvt == [fired |-> FALSE, before |-> 0, produced |-> 0, enemies |-> {}, roster |-> {}]

\* the base's production step of one tick: with enough energy and no enemy
\* in sight the base pays current_spirit_cost and a new spirit joins the
\* roster at the base, under the next id of the host
BaseProduce ==
    /\ "base" \notin ran
    /\ IF BaseCanProduce(base)
       THEN /\ FreshIds # {}
            /\ base' = [base EXCEPT !.energy = @ - base.current_spirit_cost]
            /\ baseEvt' = [fired |-> TRUE, before |-> base.energy, produced |-> 1,
                           enemies |-> base.sight.enemies, roster |-> snapshot]
            /\ shape' = [shape EXCEPT ![NextId] = spawn.shape]
            /\ energy' = [energy EXCEPT ![NextId] = spawn.energy]
            /\ position' = [position EXCEPT ![NextId] = base.position]
            /\ snapshot' = snapshot \cup {NextId}
       ELSE /\ base' = base
            /\ baseEvt' = [fired |-> TRUE, before |-> base.energy, produced |-> 0,
                           enemies |-> base.sight.enemies, roster |-> snapshot]
            /\ UNCHANGED <<shape, energy, position, snapshot>>
    /\ ran' = ran \cup {"base"}
    /\ UNCHANGED <<tick, star, starEvt, outpost, enemy, shot, pylon, spawn, heal>>
    /\ UNCHANGED <<locked, born, acted, suppressed, dispatched, pending, last>>

\* faulty variant: the high tier starts above 500
OutpostDamageTierOver(o) ==
    IF o.energy > 500 THEN [range |-> 600, cost |-> 4, damage |-> 8]
    ELSE [range |-> 400, cost |-> 1, damage |-> 2]

\* the tier of an outpost: range 400, 1 energy, 2 damage with less than 500
\* energy; range 600, 4 energy, 8 damage from 500 on. The range comment draws
\* the line at energy >= 500; the damage comment speaks of less than and over
\* 500 and is read with the same line.
OutpostDamageTier(o) ==
    IF o.energy >= 500 THEN [range |-> 600, cost |-> 4, damage |-> 8]
    ELSE [range |-> 400, cost |-> 1, damage |-> 2]

NoShot == [fired |-> FALSE, before |-> 0, damage |-> 0, dist |-> 0, hp |-> 0]

\* the outpost fires each tick it can afford to
CanAfford(o, cost) == o.energy >= cost

\* the outpost's shot of one tick, at the enemy of its sight when within
\* range: the shot costs the outpost the energy of its tier and takes the
\* damage from the hit points of the enemy, which is destroyed when they
\* reach 0
OutpostFire ==
    /\ "outpost" \notin ran
    /\ LET tier == OutpostDamageTier(outpost)
           inRange == {d \in outpost.enemyDist : d <= tier.range}
       IN IF inRange # {} /\ CanAfford(outpost, tier.cost)
          THEN /\ \E d \in inRange :
                     shot' = [fired |-> TRUE, before |-> outpost.energy,
                              damage |-> tier.damage, dist |-> d, hp |-> enemy.hp]
               /\ enemy' = [enemy EXCEPT !.hp = Max(0, @ - tier.damage)]
               /\ outpost' = [outpost EXCEPT
                                !.energy = @ - tier.cost,
                                !.enemyDist = IF enemy'.hp = 0 THEN {} ELSE @]
          ELSE /\ outpost' = outpost
               /\ enemy' = enemy
               /\ shot' = NoShot
    /\ ran' = ran \cup {"outpost"}
    /\ UNCHANGED <<tick, star, starEvt, base, baseEvt, pylon, position, energy, spawn, heal>>
    /\ UNCHANGED gatewayVars

\* squared Euclidean distance of two coordinates
Dist2(a, b) == (a[1] - b[1]) * (a[1] - b[1]) + (a[2] - b[2]) * (a[2] - b[2])

\* faulty variant: the inner radius is forgotten
InAnnulusNoInner(p, q) == Dist2(p, q) <= 400 * 400

\* inside the annulus of radii 200 and 400 around p
InAnnulus(p, q) == 200 * 200 <= Dist2(p, q) /\ Dist2(p, q) <= 400 * 400

\* the friendly spirits inside the pylon's annulus, by ascending id
PylonHealTargets(p, friendly) ==
    LET inZone(s) == s \in friendly /\ InAnnulus(p.position, position[s])
    IN SelectSeq(SpiritOrder, inZone)

\* the first targets the pylon's energy pays for, at 1 energy per spirit
Affordable(targets, e) == SubSeq(targets, 1, Min(e, Len(targets)))

NoHeal == [fired |-> FALSE, before |-> 0, targets |-> <<>>,
           energy |-> [s \in SpiritIds |-> 0]]

\* the pylon's healing of one tick: each target it can pay for receives 1
\* energy, as far as the spirit can store it, and the pylon pays 1 energy for
\* each of them
PylonHeal ==
    /\ "pylon" \notin ran
    /\ LET targets == Affordable(PylonHealTargets(pylon, SpiritIds \cap snapshot),
                                 pylon.energy)
           healed == {targets[i] : i \in DOMAIN targets}
       IN /\ pylon' = [pylon EXCEPT !.energy = @ - Len(targets)]
          /\ energy' = [s \in SpiritIds |->
                           IF s \in healed THEN Clamp(SpiritCap, energy[s] + 1)
                           ELSE energy[s]]
          /\ heal' = [fired |-> TRUE, before |-> pylon.energy, targets |-> targets,
                      energy |-> energy]
    /\ ran' = ran \cup {"pylon"}
    /\ UNCHANGED <<tick, star, starEvt, base, baseEvt, outpost, enemy, shot, position, spawn>>
    /\ UNCHANGED gatewayVars

\* the enemy sight lists a base can be handed
BaseSights == {{}, {"e1"}}

\* tick boundary seen by the economy: every structure may act again and the
\* base's sight is rebuilt from the host's globals
EconomyTick ==
    /\ tick < MaxTick
    /\ tick' = tick + 1
    /\ ran' = {}
    /\ \E en \in BaseSights : base' = [base EXCEPT !.sight.enemies = en]
    /\ starEvt' = NoStarEvt
    /\ baseEvt' = NoBaseEvt
    /\ shot' = NoShot
    /\ heal' = NoHeal
    /\ UNCHANGED <<star, outpost, enemy, pylon, position, energy, spawn>>
    /\ UNCHANGED gatewayVars

(***************************************************************************)
(* Initial states.                                                         *)
(***************************************************************************)
PylonAt == <<500, 500>>

\* offsets from the pylon at distances 150, 250, 450, 200, 400, 199 and 401
Offsets == {<<150, 0>>, <<250, 0>>, <<450, 0>>, <<120, 160>>, <<240, 320>>,
            <<199, 0>>, <<0, 401>>}
Positions == {<<PylonAt[1] + o[1], PylonAt[2] + o[2]>> : o \in Offsets}

\* a roster with one spirit of each shape, the other ids not yet given
DefaultShape == [s \in SpiritIds |->
                    CASE s = "s1" -> "circles" [] s = "s2" -> "squares"
                      [] s = "s3" -> "triangles" [] OTHER -> NoShape]
RosterIds == {s \in SpiritIds : DefaultShape[s] # NoShape}

\* the rosters the gateway starts from, with the energy of their spirits: a
\* lone drained circle, whose divides fill the roster, and a square with 1
\* energy next to a drained triangle
Rosters ==
    {[shape |-> [s \in SpiritIds |-> IF s = "s1" THEN "circles" ELSE NoShape],
      energy |-> [s \in SpiritIds |-> 0]],
     [shape |-> [s \in SpiritIds |->
                    CASE s = "s2" -> "squares" [] s = "s3" -> "triangles" [] OTHER -> NoShape],
      energy |-> [s \in SpiritIds |-> IF s = "s2" THEN 1 ELSE 0]]}

DefaultStar == [id |-> "star_zxq", energy |-> 25, energy_capacity |-> StarCap]
\* the place of the base, away from the pylon
BaseAt == <<1500, 500>>

DefaultBase == [energy |-> 150, energy_capacity |-> BaseCap, current_spirit_cost |-> 100,
                sight |-> [enemies |-> {}], position |-> BaseAt]
DefaultOutpost == [energy |-> 500, energy_capacity |-> OutpostCap, enemyDist |-> {300}]
DefaultEnemy == [hp |-> 10, energy |-> 1, energy_capacity |-> SpiritCap]
DefaultPylon == [energy |-> PylonCap, energy_capacity |-> PylonCap, position |-> PylonAt]
DefaultPosition == [s \in SpiritIds |->
                      CASE s = "s1" -> <<750, 500>> [] s = "s2" -> <<650, 500>>
                        [] s = "s3" -> <<750, 500>> [] OTHER -> BaseAt]
DefaultEnergy == [s \in SpiritIds |-> IF s \in RosterIds THEN 1 ELSE 0]

\* what the spirits a base generates are like: the declarations give neither
\* their shape nor their energy, any shape and any energy they can store is
\* possible
Spawns == [shape : Shape, energy : 0..SpiritCap]
DefaultSpawn == [shape |-> "circles", energy |-> SpiritCap]

\* the energies the spirits around a pylon start with: drained, full, and
\* full next to almost full
SpiritEnergies ==
    {[s \in SpiritIds |-> 0],
     [s \in SpiritIds |-> IF s \in RosterIds THEN SpiritCap ELSE 0],
     [s \in SpiritIds |-> IF s = "s1" THEN SpiritCap
                          ELSE IF s \in RosterIds THEN SpiritCap - 1 ELSE 0]}

InitGatewayPart ==
    /\ tick = 0
    /\ locked = {}
    /\ born = 0
    /\ acted = {}
    /\ suppressed = {}
    /\ dispatched = [s \in SpiritIds |-> 0]
    /\ pending = [s \in SpiritIds |-> NoEffect]
    /\ last = NoIntent

InitEconomyPart ==
    /\ starEvt = NoStarEvt
    /\ baseEvt = NoBaseEvt
    /\ shot = NoShot
    /\ heal = NoHeal
    /\ ran = {}

\* the whole roster of one spirit of each shape, seen in the snapshot
InitRoster ==
    /\ shape = DefaultShape
    /\ snapshot = RosterIds \cup StructureIds

\* the gateway facing one of its rosters, the base one short of full and
\* with an enemy in its sight, so that it generates no spirit meanwhile
InitGateway ==
    /\ InitGatewayPart /\ InitEconomyPart
    /\ \E r \in Rosters :
          /\ shape = r.shape
          /\ energy = r.energy
          /\ snapshot = {s \in SpiritIds : r.shape[s] # NoShape} \cup StructureIds
    /\ base = [DefaultBase EXCEPT !.energy = BaseCap - 1, !.sight.enemies = {"e1"}]
    /\ spawn = DefaultSpawn
    /\ star = DefaultStar /\ outpost = DefaultOutpost /\ enemy = DefaultEnemy
    /\ pylon = DefaultPylon /\ position = DefaultPosition

\* any of the four stars at any energy of its capacity
InitStar ==
    /\ InitGatewayPart /\ InitEconomyPart /\ InitRoster
    /\ \E i \in STAR_IDS, c \in {StarCap \div 2, StarCap} : \E e \in 0..c :
          star = [id |-> i, energy |-> e, energy_capacity |-> c]
    /\ base = DefaultBase /\ outpost = DefaultOutpost /\ enemy = DefaultEnemy
    /\ pylon = DefaultPylon /\ position = DefaultPosition /\ energy = DefaultEnergy
    /\ spawn = DefaultSpawn

\* a base at any energy, with either sight and one of three spirit costs
InitBase ==
    /\ InitGatewayPart /\ InitEconomyPart /\ InitRoster
    /\ \E e \in 0..BaseCap, c \in {50, 100, BaseCap}, en \in BaseSights :
          base = [energy |-> e, energy_capacity |-> BaseCap, current_spirit_cost |-> c,
                  sight |-> [enemies |-> en], position |-> BaseAt]
    /\ spawn \in Spawns
    /\ star = DefaultStar /\ outpost = DefaultOutpost /\ enemy = DefaultEnemy
    /\ pylon = DefaultPylon /\ position = DefaultPosition /\ energy = DefaultEnergy

\* the distances an enemy in the outpost's sight can be at
EnemyDists == {300, 400, 401, 600, 601}

\* the hit points an enemy in the outpost's sight can have
EnemyHps == {2, 8, 20}

\* an outpost at any energy, with no enemy or one enemy in its sight
InitOutpost ==
    /\ InitGatewayPart /\ InitEconomyPart /\ InitRoster
    /\ \E e \in 0..OutpostCap, en \in {{}} \cup {{d} : d \in EnemyDists} :
          outpost = [energy |-> e, energy_capacity |-> OutpostCap, enemyDist |-> en]
    /\ \E h \in EnemyHps : enemy = [DefaultEnemy EXCEPT !.hp = h]
    /\ star = DefaultStar /\ base = DefaultBase /\ spawn = DefaultSpawn
    /\ pylon = DefaultPylon /\ position = DefaultPosition /\ energy = DefaultEnergy

\* a pylon with little or full energy and the roster anywhere around it
InitPylon ==
    /\ InitGatewayPart /\ InitEconomyPart /\ InitRoster
    /\ \E e \in {0, 1, 2, 3, PylonCap} :
          pylon = [energy |-> e, energy_capacity |-> PylonCap, position |-> PylonAt]
    /\ \E p \in [RosterIds -> Positions] :
          position = [s \in SpiritIds |-> IF s \in RosterIds THEN p[s] ELSE BaseAt]
    /\ energy \in SpiritEnergies
    /\ star = DefaultStar /\ base = DefaultBase /\ spawn = DefaultSpawn
    /\ outpost = DefaultOutpost /\ enemy = DefaultEnemy

\* all four structures together, each at the ends and the thresholds of its range
InitEconomy ==
    /\ InitGatewayPart /\ InitEconomyPart /\ InitRoster
    /\ \E i \in {"star_zxq", "star_nua"}, e \in {0, StarCap - 1, StarCap} :
          star = [id |-> i, energy |-> e, energy_capacity |-> StarCap]
    /\ \E e \in {99, 100, BaseCap}, en \in BaseSights :
          base = [energy |-> e, energy_capacity |-> BaseCap, current_spirit_cost |-> 100,
                  sight |-> [enemies |-> en], position |-> BaseAt]
    /\ spawn \in {DefaultSpawn, [shape |-> "triangles", energy |-> 0]}
    /\ \E e \in {0, 4, 499, 500, OutpostCap}, en \in {{}, {300}, {600}} :
          outpost = [energy |-> e, energy_capacity |-> OutpostCap, enemyDist |-> en]
    /\ enemy = DefaultEnemy
    /\ \E e \in {0, 1, 2, PylonCap} :
          pylon = [energy |-> e, energy_capacity |-> PylonCap, position |-> PylonAt]
    /\ position = DefaultPosition
    /\ energy = [s \in SpiritIds |-> IF s = "s1" THEN SpiritCap
                                     ELSE IF s \in RosterIds THEN SpiritCap - 1 ELSE 0]

(***************************************************************************)
(* Specifications.                                                         *)
(***************************************************************************)
NextGateway == SubmitEnergize \/ SubmitMerge \/ SubmitMove \/ SubmitPlain \/ NextTick
NextStar == StarRegen \/ EconomyTick
NextBase == BaseProduce \/ EconomyTick
NextOutpost == OutpostFire \/ EconomyTick
NextPylon == PylonHeal \/ EconomyTick
NextEconomy == StarRegen \/ BaseProduce \/ OutpostFire \/ PylonHeal \/ EconomyTick

Init == InitGateway
Next == NextGateway
Spec == Init /\ [][Next]_vars
SpecStar == InitStar /\ [][NextStar]_vars
SpecBase == InitBase /\ [][NextBase]_vars
SpecOutpost == InitOutpost /\ [][NextOutpost]_vars
SpecPylon == InitPylon /\ [][NextPylon]_vars
SpecEconomy == InitEconomy /\ [][NextEconomy]_vars

(***************************************************************************)
(* Properties of the Action Gateway (checked under Spec).                  *)
(***************************************************************************)
\* the methods each shape lacks, as the capability matrix states them
Lacks(sh) ==
    IF sh = "circles" THEN {"lock", "unlock", "explode"}
    ELSE IF sh = "squares" THEN {"merge", "divide", "explode"}
    ELSE {"merge", "divide", "lock", "unlock"}

\* the last intent named a method of its actor's shape and, where the command
\* takes an entity, a target of the snapshot
PassesCapabilityAndTarget ==
    /\ last.method \notin Lacks(shape[last.actor])
    /\ last.method \in {"energize", "merge"} => last.target \in snapshot

\* C1: an intent whose method the actor's shape lacks (Circle: lock, unlock,
\* explode; Square: merge, divide, explode; Triangle: merge, divide, lock,
\* unlock) is rejected with CapabilityError and leaves the host calls of its
\* actor as they were; no step changes the shape a spirit has.
C1_CapabilityRejected ==
    [][ /\ \A s \in SpiritIds : shape[s] # NoShape => shape'[s] = shape[s]
        /\ (last'.submitted /\ last'.method \in Lacks(shape'[last'.actor]))
              => /\ last'.outcome = "CapabilityError"
                 /\ dispatched'[last'.actor] = last'.before
                 /\ dispatched' = dispatched ]_vars

C1_Witness ==
    /\ last.submitted
    /\ last.method = "explode"
    /\ shape[last.actor] = "circles"
    /\ last.outcome = "CapabilityError"
    /\ dispatched[last.actor] = 0

\* C2 as stated: at most one command of an entity reaches the host in a tick,
\* and every intent of an entity that has already dispatched in the tick is
\* rejected with DoubleActionError, whatever its kind.
C2_AlwaysDoubleActionError ==
    /\ \A e \in SpiritIds : dispatched[e] <= 1
    /\ (last.submitted /\ last.before >= 1) => last.outcome = "DoubleActionError"

\* C2 amended: at most one command of an entity reaches the host in a tick;
\* every intent of an entity that has already dispatched in the tick is
\* rejected, with DoubleActionError when it passes the capability and target
\* validation and with the error of the failing validation otherwise.
C2_AtMostOnePerTick ==
    /\ \A e \in SpiritIds : dispatched[e] <= 1
    /\ (last.submitted /\ last.before >= 1) =>
          /\ last.outcome \in {"CapabilityError", "UnknownTargetError", "DoubleActionError"}
          /\ dispatched[last.actor] = last.before
          /\ PassesCapabilityAndTarget <=> last.outcome = "DoubleActionError"

C2_Witness ==
    /\ last.submitted
    /\ last.before = 1
    /\ last.outcome = "DoubleActionError"
    /\ dispatched[last.actor] = 1

\* C3: the host binding is called once for an intent that passes the three
\* validations and not at all for one that fails any of them; the host calls
\* of an entity grow only by one, in the step that submits its passing intent,
\* so nothing suppressed is issued later in the tick or in a later tick.
C3_ForwardedExactlyOnce ==
    [][ /\ last'.submitted =>
              LET passes == PassesCapabilityAndTarget' /\ last'.before = 0
              IN /\ dispatched'[last'.actor] = last'.before + (IF passes THEN 1 ELSE 0)
                 /\ passes <=> last'.outcome = "ok"
                 /\ ~passes => last'.outcome \in {"CapabilityError", "UnknownTargetError",
                                                  "DoubleActionError"}
        /\ \A e \in SpiritIds :
              dispatched'[e] # dispatched[e] =>
                 \/ tick' = tick + 1 /\ dispatched'[e] = 0
                 \/ /\ last'.actor = e /\ last'.outcome = "ok"
                    /\ dispatched'[e] = dispatched[e] + 1 ]_vars

C3_Witness ==
    /\ tick >= 1
    /\ last.submitted
    /\ last.method = "merge"
    /\ last.target = GhostId
    /\ last.outcome = "UnknownTargetError"
    /\ dispatched[last.actor] = 0
    /\ \E e \in SpiritIds : dispatched[e] = 1

\* C10: an intent that passes the capability and target validation, from an
\* entity that has not dispatched in the tick, is dispatched although intents
\* of the same entity or of other entities were rejected earlier in the tick.
C10_RejectionKeepsSlot ==
    (/\ last.submitted
     /\ suppressed # {}
     /\ last.before = 0
     /\ PassesCapabilityAndTarget)
        => /\ last.outcome = "ok"
           /\ dispatched[last.actor] = 1

C10_Witness ==
    /\ last.submitted
    /\ last.actor \in suppressed
    /\ suppressed \ {last.actor} # {}
    /\ last.outcome = "ok"
    /\ dispatched[last.actor] = 1

(***************************************************************************)
(* Properties of the Economy Engine.                                       *)
(***************************************************************************)
\* n is x/100 rounded to the nearest integer, a tie rounded up
NearestHalfUp(n, x) == 100 * n - 50 <= x /\ x < 100 * n + 50

\* 100 times the unrounded income of the star at energy e
Income100(id, e) == IF id = "star_nua" THEN 300 + 3 * e ELSE 200 + 2 * e

\* C4 (SpecStar): the income of a star is 2 + 2% of its energy (3 + 3% for
\* star_nua) rounded to the nearest integer with ties up, and its energy after
\* the tick is min(capacity, energy + income), never above the capacity.
C4_StarIncomeRounded ==
    starEvt.fired =>
        /\ NearestHalfUp(starEvt.income, Income100(star.id, starEvt.before))
        /\ star.energy = Min(star.energy_capacity, starEvt.before + starEvt.income)
        /\ star.energy <= star.energy_capacity

C4_Witness ==
    /\ starEvt.fired
    /\ star.id = "star_zxq"
    /\ starEvt.before = 25
    /\ starEvt.income = 3
    /\ star.energy = 28

\* C9 as stated (SpecStar): the energy a star gains in a tick is
\* floor(2 + 0.02*energy), floor(3 + 0.03*energy) for star_nua, the result
\* clamped at the capacity.
C9_StarGainFloor ==
    starEvt.fired =>
        star.energy = Min(star.energy_capacity,
                          starEvt.before + Income100(star.id, starEvt.before) \div 100)

\* C9 amended (SpecStar): the energy a star gains in a tick is
\* 2 + 0.02*energy, 3 + 0.03*energy for star_nua, rounded to the nearest
\* integer with ties up, cut down to what the capacity leaves room for.
C9_StarGainNearest ==
    starEvt.fired =>
        \E n \in 0..StarCap :
            /\ -50 < 100 * n - Income100(star.id, starEvt.before)
            /\ 100 * n - Income100(star.id, starEvt.before) <= 50
            /\ star.energy - starEvt.before = Min(star.energy_capacity - starEvt.before, n)

C9_Witness ==
    /\ starEvt.fired
    /\ star.id = "star_nua"
    /\ starEvt.before = 50
    /\ star.energy = 55

\* C5 (SpecOutpost): the tier of an outpost is range 400, cost 1, damage 2
\* below 500 energy and range 600, cost 4, damage 8 from 500 on; a shot deals
\* the damage and deducts the cost of the tier of the energy before the shot,
\* so an outpost at 500 deals 8 damage and ends at 496.
C5_OutpostTier ==
    /\ outpost.energy < 500 =>
          OutpostDamageTier(outpost) = [range |-> 400, cost |-> 1, damage |-> 2]
    /\ outpost.energy >= 500 =>
          OutpostDamageTier(outpost) = [range |-> 600, cost |-> 4, damage |-> 8]
    /\ (shot.fired /\ shot.before < 500) =>
          /\ shot.damage = 2 /\ outpost.energy = shot.before - 1 /\ shot.dist <= 400
          /\ enemy.hp = Max(0, shot.hp - 2)
    /\ (shot.fired /\ shot.before >= 500) =>
          /\ shot.damage = 8 /\ outpost.energy = shot.before - 4 /\ shot.dist <= 600
          /\ enemy.hp = Max(0, shot.hp - 8)

C5_Witness ==
    /\ shot.fired
    /\ shot.before = 500
    /\ shot.damage = 8
    /\ shot.hp = 20 /\ enemy.hp = 12
    /\ outpost.energy = 496

\* the spirits at a distance d from the pylon with 200 <= d <= 400
Zone == {s \in SpiritIds :
            /\ 40000 <= Dist2(pylon.position, position[s])
            /\ Dist2(pylon.position, position[s]) <= 160000}

C7_BaseProduction ==
    /\ BaseCanProduce(base) <=>
          (base.sight.enemies = {} /\ base.energy >= base.current_spirit_cost)
    /\ baseEvt.fired =>
          /\ (baseEvt.enemies = {} /\ baseEvt.before >= base.current_spirit_cost) =>
                baseEvt.produced = 1 /\ base.energy = baseEvt.before - base.current_spirit_cost
          /\ baseEvt.enemies # {} =>
                baseEvt.produced = 0 /\ base.energy = baseEvt.before
          /\ baseEvt.before < base.current_spirit_cost =>
                baseEvt.produced = 0 /\ base.energy = baseEvt.before
          /\ baseEvt.produced = 1 =>
                \E n \in SpiritIds \ baseEvt.roster :
                   /\ snapshot = baseEvt.roster \cup {n}
                   /\ shape[n] # NoShape /\ position[n] = base.position
          /\ baseEvt.produced = 0 => snapshot = baseEvt.roster

C7_Witness ==
    /\ baseEvt.fired
    /\ base.current_spirit_cost = 100
    /\ baseEvt.before = 150
    /\ baseEvt.enemies = {}
    /\ baseEvt.produced = 1
    /\ base.energy = 50
    /\ baseEvt.roster = RosterIds \cup StructureIds
    /\ snapshot = baseEvt.roster \cup {"s4"}
    /\ shape["s4"] = "squares" /\ energy["s4"] = SpiritCap

\* C8 (SpecEconomy): through any ticks of star regeneration, base production,
\* outpost firing and pylon healing the energy of every entity, the four
\* structures, the spirits of the roster and the enemy the outpost fires at,
\* stays within 0 and its energy_capacity.
C8_EnergyWithinCapacity ==
    /\ \A st \in {star, base, outpost, pylon, enemy} :
          0 <= st.energy /\ st.energy <= st.energy_capacity
    /\ \A s \in SpiritIds \cap snapshot : 0 <= energy[s] /\ energy[s] <= SpiritCap

C8_Witness ==
    /\ tick >= 1
    /\ ran = {"star", "base", "outpost", "pylon"}
    /\ starEvt.before < star.energy_capacity /\ star.energy = star.energy_capacity
    /\ baseEvt.produced = 1
    /\ \E n \in (SpiritIds \cap snapshot) \ RosterIds : energy[n] = SpiritCap
    /\ shot.fired
    /\ \E i \in DOMAIN heal.targets :
          /\ heal.energy[heal.targets[i]] = SpiritCap
          /\ energy[heal.targets[i]] = SpiritCap

====
